---------------------------- MODULE Spec2Model ----------------------------
(***************************************************************************)
(* Model of scripts/make_favicon_ico.py: a pipeline that reads square PNG  *)
(* files, filters / deduplicates / sorts them by size and packs them into  *)
(* one ICO container.                                                      *)
(*                                                                         *)
(* Bytes are naturals 0..255, byte strings are sequences of bytes, text is *)
(* a sequence of one-character strings.  A Python value "X | None" is the  *)
(* record [some, v]; a call that may raise is the record [ok, val, err]    *)
(* where err is the message of the exception raised.                       *)
(***************************************************************************)
EXTENDS Integers, Sequences, FiniteSets, TLC

VARIABLES
    pc,             \* position of main(): the statement to execute next
    args,           \* argparse.Namespace: sizes, inputs, order, max_size
    fs,             \* what open(path, "rb") has returned so far, per path
    opened,         \* paths opened for reading, in order
    globbed,        \* whether glob.glob() has listed the icons directory
    include_sizes,  \* local of main()
    png_paths,      \* local of main()
    icons,          \* local of main()
    parsed,         \* value of icons right after line 201
    ico_bytes,      \* local of main()
    output,         \* content of args.output written by this run, if any
    stderr,         \* message printed after "error: ", if any
    exit_code,      \* process exit status, -1 while running
    call,           \* a direct call of one of the module's functions
    ret             \* what that call returned or raised

vars == <<pc, args, fs, opened, globbed, include_sizes, png_paths, icons,
          parsed, ico_bytes, output, stderr, exit_code, call, ret>>

---------------------------------------------------------------------------
(* Bounds of the model. *)

\* number of distinct paths the file system may hold (at least 3: the
\* explicit input lists name paths 1 to 3)
NumPaths == 3
\* longest text handed to parse_sizes in a direct call
MaxLen == 4
\* longest icon list handed to filter/unique/sort/build in a direct call
MaxIcons == 3
\* longest payload of an icon in such a list
MaxData == 1
\* most bytes that follow the IHDR chunk in a generated PNG file
MaxTail == 1

---------------------------------------------------------------------------
(* Python values. *)

None(dflt) == [some |-> FALSE, v |-> dflt]
Some(x) == [some |-> TRUE, v |-> x]

Ok(x) == [ok |-> TRUE, val |-> x, err |-> ""]
Raise(msg, dflt) == [ok |-> FALSE, val |-> dflt, err |-> msg]

\* open() on a path that cannot be opened (OSError: no such file, a directory)
Missing == [exists |-> FALSE, data |-> <<>>]
File(bytes) == [exists |-> TRUE, data |-> bytes]

\* data[a:b] of Python (0-based, end exclusive, clipped to the length)
Slice(data, a, b) ==
    LET hi == IF b < Len(data) THEN b ELSE Len(data)
    IN  IF a >= hi THEN <<>> ELSE SubSeq(data, a + 1, hi)

\* data.startswith(prefix)
StartsWith(data, prefix) ==
    /\ Len(data) >= Len(prefix)
    /\ \A i \in 1..Len(prefix) : data[i] = prefix[i]

\* struct.unpack(">I", b)[0]
UnpackBE32(b) == b[1] * 16777216 + b[2] * 65536 + b[3] * 256 + b[4]

\* struct.pack("<H", n), struct.pack("<I", n)
PackLE16(n) == <<n % 256, (n \div 256) % 256>>
PackLE32(n) ==
    <<n % 256, (n \div 256) % 256, (n \div 65536) % 256, (n \div 16777216) % 256>>

PNG_SIGNATURE == <<137, 80, 78, 71, 13, 10, 26, 10>>
IHDR == <<73, 72, 68, 82>>
DEFAULT_ICO_SIZES_DESC == <<256, 128, 64, 48, 32, 24, 16>>

PngIcon(path, size, data) == [path |-> path, size |-> size, data |-> data]
NoIcon == PngIcon(0, 0, <<>>)

---------------------------------------------------------------------------
(* read_png *)

\* read_png without the test of line 47
read_png_no_square_check(path, file) ==
    IF ~file.exists THEN Raise("No such file or directory", NoIcon)
    ELSE
    LET data == file.data IN
    IF Len(data) < 33 \/ ~StartsWith(data, PNG_SIGNATURE)
    THEN Raise("not a valid PNG file", NoIcon)
    ELSE
    LET ihdr_len == UnpackBE32(Slice(data, 8, 12))
        ihdr_type == Slice(data, 12, 16)
    IN
    IF ihdr_type # IHDR \/ ihdr_len < 8
    THEN Raise("invalid IHDR chunk", NoIcon)
    ELSE
    LET width == UnpackBE32(Slice(data, 16, 20))
    IN
    IF width = 0 THEN Raise("invalid icon size 0x0", NoIcon)
    ELSE Ok(PngIcon(path, width, data))

read_png(path, file) ==
    IF ~file.exists THEN Raise("No such file or directory", NoIcon)
    ELSE
    LET data == file.data IN
    IF Len(data) < 33 \/ ~StartsWith(data, PNG_SIGNATURE)
    THEN Raise("not a valid PNG file", NoIcon)
    ELSE
    LET ihdr_len == UnpackBE32(Slice(data, 8, 12))
        ihdr_type == Slice(data, 12, 16)
    IN
    IF ihdr_type # IHDR \/ ihdr_len < 8
    THEN Raise("invalid IHDR chunk", NoIcon)
    ELSE
    LET width == UnpackBE32(Slice(data, 16, 20))
        height == UnpackBE32(Slice(data, 20, 24))
    IN
    IF width # height THEN Raise("icon must be square", NoIcon)
    ELSE IF width = 0 THEN Raise("invalid icon size 0x0", NoIcon)
    ELSE Ok(PngIcon(path, width, data))

---------------------------------------------------------------------------
(* parse_sizes *)

Digits == <<"0", "1", "2", "3", "4", "5", "6", "7", "8", "9">>
IsDigit(c) == \E d \in 1..10 : Digits[d] = c
DigitVal(c) == (CHOOSE d \in 1..10 : Digits[d] = c) - 1

\* raw.split(","): the pieces between commas, empty pieces included
RECURSIVE SplitFrom(_, _, _)
SplitFrom(raw, i, cur) ==
    IF i > Len(raw) THEN <<cur>>
    ELSE IF raw[i] = "," THEN <<cur>> \o SplitFrom(raw, i + 1, <<>>)
    ELSE SplitFrom(raw, i + 1, Append(cur, raw[i]))

Split(raw) == SplitFrom(raw, 1, <<>>)

\* token.strip()
RECURSIVE LStrip(_)
LStrip(t) == IF t # <<>> /\ Head(t) = " " THEN LStrip(Tail(t)) ELSE t

RECURSIVE RStrip(_)
RStrip(t) ==
    IF t # <<>> /\ t[Len(t)] = " " THEN RStrip(SubSeq(t, 1, Len(t) - 1)) ELSE t

Strip(t) == RStrip(LStrip(t))

RECURSIVE DecimalValue(_)
DecimalValue(ds) ==
    IF ds = <<>> THEN 0
    ELSE 10 * DecimalValue(SubSeq(ds, 1, Len(ds) - 1)) + DigitVal(ds[Len(ds)])

AllDigits(ds) == ds # <<>> /\ \A i \in 1..Len(ds) : IsDigit(ds[i])

\* int(token) for a stripped token over digits, sign, blank and letters:
\* an optional sign followed by one or more decimal digits
IntOf(token) ==
    LET signed == token # <<>> /\ Head(token) \in {"-", "+"}
        body == IF signed THEN Tail(token) ELSE token
    IN  IF ~AllDigits(body) THEN Raise("invalid literal for int()", 0)
        ELSE IF signed /\ Head(token) = "-" THEN Ok(0 - DecimalValue(body))
        ELSE Ok(DecimalValue(body))

\* the loop of lines 66-76 without the test of line 74
RECURSIVE ParseTokensAnyValue(_, _)
ParseTokensAnyValue(tokens, sizes) ==
    IF tokens = <<>> THEN Ok(sizes)
    ELSE
    LET token == Strip(Head(tokens)) IN
    IF token = <<>> THEN ParseTokensAnyValue(Tail(tokens), sizes)
    ELSE
    LET value == IntOf(token) IN
    IF ~value.ok THEN Raise("invalid size value", {})
    ELSE ParseTokensAnyValue(Tail(tokens), sizes \cup {value.val})

\* the loop of lines 66-76 over the tokens still to visit
RECURSIVE ParseTokens(_, _)
ParseTokens(tokens, sizes) ==
    IF tokens = <<>> THEN Ok(sizes)
    ELSE
    LET token == Strip(Head(tokens)) IN
    IF token = <<>> THEN ParseTokens(Tail(tokens), sizes)
    ELSE
    LET value == IntOf(token) IN
    IF ~value.ok THEN Raise("invalid size value", {})
    ELSE IF value.val <= 0 THEN Raise("size must be > 0", {})
    ELSE ParseTokens(Tail(tokens), sizes \cup {value.val})

\* raw is None (option absent) or Some(text)
parse_sizes(raw) ==
    IF ~raw.some \/ raw.v = <<>> THEN Ok(None({}))
    ELSE
    LET r == ParseTokens(Split(raw.v), {}) IN
    IF ~r.ok THEN Raise(r.err, None({}))
    ELSE IF r.val = {}
    THEN Raise("at least one size must be provided with --sizes", None({}))
    ELSE Ok(Some(r.val))

---------------------------------------------------------------------------
(* filter_icons, unique_by_size, sort_icons *)

\* the test of lines 89-92 with the size limit made exclusive
KeptBelowMax(icon, include, max_size) ==
    /\ ~(icon.size >= max_size)
    /\ ~(include.some /\ icon.size \notin include.v)

\* the test of lines 89-92: icon is appended to result
Kept(icon, include, max_size) ==
    /\ ~(icon.size > max_size)
    /\ ~(include.some /\ icon.size \notin include.v)

RECURSIVE FilterLoop(_, _, _)
FilterLoop(list, include, max_size) ==
    IF list = <<>> THEN <<>>
    ELSE IF Kept(Head(list), include, max_size)
    THEN <<Head(list)>> \o FilterLoop(Tail(list), include, max_size)
    ELSE FilterLoop(Tail(list), include, max_size)

filter_icons(list, include, max_size) ==
    LET result == FilterLoop(list, include, max_size) IN
    IF result = <<>> THEN Raise("no icons left after filtering", <<>>)
    ELSE Ok(result)

\* a dict that keeps the first value of a key (setdefault)
DictSetDefault(by_size, icon) ==
    IF \E i \in 1..Len(by_size) : by_size[i].size = icon.size
    THEN by_size
    ELSE Append(by_size, icon)

\* by_size[icon.size] = icon on an insertion-ordered dict, kept as the
\* sequence of its values: a known key keeps its place and takes the new
\* value, a new key goes to the end
DictSet(by_size, icon) ==
    IF \E i \in 1..Len(by_size) : by_size[i].size = icon.size
    THEN [i \in 1..Len(by_size) |->
            IF by_size[i].size = icon.size THEN icon ELSE by_size[i]]
    ELSE Append(by_size, icon)

RECURSIVE UniqueLoop(_, _)
UniqueLoop(list, by_size) ==
    IF list = <<>> THEN by_size
    ELSE UniqueLoop(Tail(list), DictSet(by_size, Head(list)))

unique_by_size(list) == UniqueLoop(list, <<>>)

\* where a stable sort puts icon among the already sorted ones: after every
\* element that does not have to follow it
InsertSorted(sorted, icon, reverse) ==
    LET after(i) == IF reverse THEN sorted[i].size < icon.size
                    ELSE sorted[i].size > icon.size
        k == IF \E i \in 1..Len(sorted) : after(i)
             THEN CHOOSE i \in 1..Len(sorted) :
                    after(i) /\ \A j \in 1..(i - 1) : ~after(j)
             ELSE Len(sorted) + 1
    IN  SubSeq(sorted, 1, k - 1) \o <<icon>> \o SubSeq(sorted, k, Len(sorted))

RECURSIVE SortLoop(_, _, _)
SortLoop(list, sorted, reverse) ==
    IF list = <<>> THEN sorted
    ELSE SortLoop(Tail(list), InsertSorted(sorted, Head(list), reverse), reverse)

\* sort_icons that ignores the order it is given
sort_icons_ascending(list, order) == SortLoop(list, <<>>, FALSE)

\* sorted(icons, key=size, reverse=reverse): stable in both directions
sort_icons(list, order) == SortLoop(list, <<>>, order = "desc")

---------------------------------------------------------------------------
(* ico_size_byte, build_ico *)

\* ico_size_byte without the special case of 256
ico_size_byte_identity(size) == size

ico_size_byte(size) == IF size = 256 THEN 0 ELSE size

\* struct.pack("<BBBBHHII", width, height, 0, 0, 1, 32, bytes_in_res, offset);
\* struct.error when a field does not fit its width
PackEntry(width, height, bytes_in_res, offset) ==
    IF \/ width < 0 \/ width > 255 \/ height < 0 \/ height > 255
       \/ bytes_in_res \div 65536 >= 65536 \/ offset \div 65536 >= 65536
    THEN Raise("struct.error", <<>>)
    ELSE Ok(<<width, height, 0, 0>> \o PackLE16(1) \o PackLE16(32)
            \o PackLE32(bytes_in_res) \o PackLE32(offset))

\* the loop of lines 128-149 over the icons still to encode
RECURSIVE BuildLoop(_, _, _, _)
BuildLoop(list, entries, image_data, offset) ==
    IF list = <<>> THEN Ok(entries \o image_data)
    ELSE
    LET icon == Head(list) IN
    IF icon.size > 256 THEN Raise("cannot be stored in ICO directory", <<>>)
    ELSE
    LET width == ico_size_byte(icon.size)
        height == ico_size_byte(icon.size)
        bytes_in_res == Len(icon.data)
        entry == PackEntry(width, height, bytes_in_res, offset)
    IN
    IF ~entry.ok THEN Raise(entry.err, <<>>)
    ELSE BuildLoop(Tail(list), entries \o entry.val,
                   image_data \o icon.data, offset + bytes_in_res)

\* build_ico with the running offset started at the end of the header only
build_ico_offset_from_header(list) ==
    IF Len(list) > 65535 THEN Raise("too many icons for ICO format", <<>>)
    ELSE
    LET header == PackLE16(0) \o PackLE16(1) \o PackLE16(Len(list))
        body == BuildLoop(list, <<>>, <<>>, 6)
    IN  IF ~body.ok THEN Raise(body.err, <<>>)
        ELSE Ok(header \o body.val)

build_ico(list) ==
    IF Len(list) > 65535 THEN Raise("too many icons for ICO format", <<>>)
    ELSE
    LET header == PackLE16(0) \o PackLE16(1) \o PackLE16(Len(list))
        body == BuildLoop(list, <<>>, <<>>, 6 + 16 * Len(list))
    IN  IF ~body.ok THEN Raise(body.err, <<>>)
        ELSE Ok(header \o body.val)

---------------------------------------------------------------------------
(* The inputs the model enumerates. *)

Paths == 1..NumPaths

\* sequences over S of length lo..hi
SeqsOf(S, lo, hi) == UNION {[1..n -> S] : n \in lo..hi}

\* struct.pack(">I", n), to lay out the PNG files that are read
PackBE32(n) ==
    <<(n \div 16777216) % 256, (n \div 65536) % 256, (n \div 256) % 256, n % 256>>

\* a PNG file: signature, one IHDR-shaped chunk (length, type, width, height,
\* five more header bytes, CRC), then the rest of the file
PngBytes(sig, ihdr_len, type, width, height, rest) ==
    sig \o PackBE32(ihdr_len) \o type \o PackBE32(width) \o PackBE32(height)
        \o <<8, 6, 0, 0, 0>> \o <<0, 0, 0, 0>> \o rest

SquarePng(size, rest) == PngBytes(PNG_SIGNATURE, 13, IHDR, size, size, rest)

\* what a path read by main() may hold: two different files of size 16, files
\* of sizes 32 and 256, one of a size outside the classic list, one larger
\* than the ICO limit, and one that is not square
MainFiles ==
    {File(SquarePng(16, <<>>)), File(SquarePng(16, <<1>>)),
     File(SquarePng(32, <<>>)), File(SquarePng(256, <<2, 2>>)),
     File(SquarePng(20, <<>>)), File(SquarePng(300, <<>>)),
     File(PngBytes(PNG_SIGNATURE, 13, IHDR, 16, 32, <<>>))}

\* --sizes texts given to main(): absent, empty, "16", "16, 256", "0,16", "x"
MainSizes ==
    {None(<<>>), Some(<<>>), Some(<<"1", "6">>),
     Some(<<"1", "6", ",", " ", "2", "5", "6">>),
     Some(<<"0", ",", "1", "6">>), Some(<<"x">>)}

\* --inputs: absent, given without a value, or a list of paths: one path, two
\* paths out of lexicographic order, the same path twice, three paths
MainInputs ==
    {None(<<>>), Some(<<>>), Some(<<1>>), Some(<<2, 1>>), Some(<<1, 1>>),
     Some(<<3, 1, 2>>)}

MainMaxSizes == {16, 256, 512}
Orders == {"desc", "asc"}

\* texts handed to parse_sizes directly
Alphabet == {"0", "1", "6", ",", " ", "-", "x"}
Texts == SeqsOf(Alphabet, 0, MaxLen)

\* files handed to read_png directly: every combination of a good or bad
\* signature, chunk length, chunk type, width and height, cut at some length
PngFiles ==
    {File(Slice(PngBytes(sig, len, type, w, h, rest), 0, cut)) :
        sig \in {PNG_SIGNATURE, <<137, 80, 78, 71, 13, 10, 26, 11>>},
        len \in {0, 7, 8, 13},
        type \in {IHDR, <<73, 68, 65, 84>>},
        w \in {0, 16, 256, 65536},
        h \in {0, 16, 256, 65536},
        rest \in SeqsOf({9}, 0, MaxTail),
        cut \in {0, 8, 32, 33, 33 + MaxTail}}
    \cup {Missing}

\* icon lists handed to filter_icons, unique_by_size, sort_icons and build_ico
\* directly: icon i is tagged by its position (path and payload bytes)
FnSizes == {16, 48, 256, 257}
IconLists ==
    {[i \in 1..Len(l) |-> PngIcon(i, l[i][1], [k \in 1..l[i][2] |-> i])] :
        l \in SeqsOf(FnSizes \X (0..MaxData), 0, MaxIcons)}

FnIncludes == {None({}), Some({16}), Some({16, 256}), Some({48, 257})}

---------------------------------------------------------------------------
(* main *)

Idle == [op |-> "none"]

NoArgs ==
    [sizes |-> None(<<>>), inputs |-> None(<<>>), order |-> "desc", max_size |-> 256]

Init ==
    /\ pc = "start"
    /\ args = NoArgs
    /\ fs = [p \in Paths |-> None(Missing)]
    /\ opened = <<>>
    /\ globbed = FALSE
    /\ include_sizes = None({})
    /\ png_paths = <<>>
    /\ icons = <<>>
    /\ parsed = <<>>
    /\ ico_bytes = <<>>
    /\ output = None(<<>>)
    /\ stderr = ""
    /\ exit_code = -1
    /\ call = Idle
    /\ ret = Ok(0)

\* line 193: args = parse_args()
ParseArgs ==
    /\ pc = "start" /\ call = Idle
    /\ \E s \in MainSizes, i \in MainInputs, o \in Orders, m \in MainMaxSizes :
        args' = [sizes |-> s, inputs |-> i, order |-> o, max_size |-> m]
    /\ pc' = "parse_sizes"
    /\ UNCHANGED <<fs, opened, globbed, include_sizes, png_paths, icons, parsed,
                   ico_bytes, output, stderr, exit_code, call, ret>>

\* lines 213-215: an exception raised inside the try block
Fail(msg) ==
    /\ pc' = "done"
    /\ stderr' = msg
    /\ exit_code' = 1

\* line 196
ParseSizesStep ==
    /\ pc = "parse_sizes"
    /\ LET r == parse_sizes(args.sizes) IN
        IF r.ok
        THEN /\ include_sizes' = r.val
             /\ pc' = "discover"
             /\ UNCHANGED <<stderr, exit_code>>
        ELSE /\ Fail(r.err)
             /\ UNCHANGED include_sizes
    /\ UNCHANGED <<args, fs, opened, globbed, png_paths, icons, parsed,
                   ico_bytes, output, call, ret>>

\* sorted(paths): paths are numbered in lexicographic order
RECURSIVE SortedPaths(_)
SortedPaths(S) ==
    IF S = {} THEN <<>>
    ELSE LET m == CHOOSE x \in S : \A y \in S : x <= y
         IN  <<m>> \o SortedPaths(S \ {m})

\* discover_pngs, given what glob.glob() lists
discover_pngs(explicit_inputs, listing) ==
    IF explicit_inputs.some /\ explicit_inputs.v # <<>>
    THEN explicit_inputs.v
    ELSE SortedPaths({listing[i] : i \in 1..Len(listing)})

\* what glob.glob(pattern) may list: the n matching files, in any order
Listings ==
    UNION {{l \in [1..n -> 1..n] : \A i, j \in 1..n : l[i] = l[j] => i = j} :
            n \in 0..NumPaths}

\* lines 197-199
Discover ==
    /\ pc = "discover"
    /\ \E listing \in Listings :
        LET paths == discover_pngs(args.inputs, listing) IN
        /\ globbed' = ~(args.inputs.some /\ args.inputs.v # <<>>)
        /\ png_paths' = paths
        /\ IF paths = <<>>
           THEN Fail("no PNG files found")
           ELSE pc' = "read" /\ UNCHANGED <<stderr, exit_code>>
    /\ UNCHANGED <<args, fs, opened, include_sizes, icons, parsed, ico_bytes,
                   output, call, ret>>

\* line 201 with a file that does not parse skipped instead of raised
ReadNextSkipBad ==
    /\ pc = "read"
    /\ LET path == png_paths[Len(icons) + 1] IN
       \E file \in IF fs[path].some THEN {fs[path].v}
                   ELSE MainFiles \cup {Missing} :
        LET r == read_png(path, file)
            rest == SubSeq(png_paths, 1, Len(icons))
                        \o SubSeq(png_paths, Len(icons) + 2, Len(png_paths))
            paths == IF r.ok THEN png_paths ELSE rest
            list == IF r.ok THEN Append(icons, r.val) ELSE icons
        IN
        /\ fs' = [fs EXCEPT ![path] = Some(file)]
        /\ opened' = Append(opened, path)
        /\ png_paths' = paths
        /\ icons' = list
        /\ UNCHANGED <<stderr, exit_code>>
        /\ IF Len(list) = Len(paths)
           THEN pc' = "prefer" /\ parsed' = list
           ELSE pc' = "read" /\ UNCHANGED parsed
    /\ UNCHANGED <<args, globbed, include_sizes, ico_bytes, output, call, ret>>

\* line 201, one element of the list comprehension: the next path is opened
\* and parsed.  The path holds one of the files above or cannot be opened; a
\* path read twice holds the same file both times.
ReadNext ==
    /\ pc = "read"
    /\ LET path == png_paths[Len(icons) + 1] IN
       \E file \in IF fs[path].some THEN {fs[path].v}
                   ELSE MainFiles \cup {Missing} :
        LET r == read_png(path, file) IN
        /\ fs' = [fs EXCEPT ![path] = Some(file)]
        /\ opened' = Append(opened, path)
        /\ IF ~r.ok
           THEN Fail(r.err) /\ UNCHANGED <<icons, parsed>>
           ELSE /\ icons' = Append(icons, r.val)
                /\ UNCHANGED <<stderr, exit_code>>
                /\ IF Len(icons) + 1 = Len(png_paths)
                   THEN pc' = "prefer" /\ parsed' = Append(icons, r.val)
                   ELSE pc' = "read" /\ UNCHANGED parsed
    /\ UNCHANGED <<args, globbed, include_sizes, png_paths, ico_bytes, output,
                   call, ret>>

\* lines 202-207 without the test of args.inputs
PreferredSizesAlways(include, inputs, list) ==
    IF ~include.some
    THEN LET discovered_sizes == {list[i].size : i \in 1..Len(list)}
             preferred == SelectSeq(DEFAULT_ICO_SIZES_DESC,
                                    LAMBDA size : size \in discovered_sizes)
         IN  IF preferred # <<>>
             THEN Some({preferred[i] : i \in 1..Len(preferred)})
             ELSE include
    ELSE include

\* lines 202-207, as a function of the locals it reads
PreferredSizes(include, inputs, list) ==
    IF ~include.some /\ ~(inputs.some /\ inputs.v # <<>>)
    THEN LET discovered_sizes == {list[i].size : i \in 1..Len(list)}
             preferred == SelectSeq(DEFAULT_ICO_SIZES_DESC,
                                    LAMBDA size : size \in discovered_sizes)
         IN  IF preferred # <<>>
             THEN Some({preferred[i] : i \in 1..Len(preferred)})
             ELSE include
    ELSE include

Prefer ==
    /\ pc = "prefer"
    /\ include_sizes' = PreferredSizes(include_sizes, args.inputs, icons)
    /\ pc' = "filter"
    /\ UNCHANGED <<args, fs, opened, globbed, png_paths, icons, parsed,
                   ico_bytes, output, stderr, exit_code, call, ret>>

\* line 209
Filter ==
    /\ pc = "filter"
    /\ LET r == filter_icons(icons, include_sizes, args.max_size) IN
        IF r.ok
        THEN icons' = r.val /\ pc' = "unique" /\ UNCHANGED <<stderr, exit_code>>
        ELSE Fail(r.err) /\ UNCHANGED icons
    /\ UNCHANGED <<args, fs, opened, globbed, include_sizes, png_paths, parsed,
                   ico_bytes, output, call, ret>>

\* line 210
Unique ==
    /\ pc = "unique"
    /\ icons' = unique_by_size(icons)
    /\ pc' = "sort"
    /\ UNCHANGED <<args, fs, opened, globbed, include_sizes, png_paths, parsed,
                   ico_bytes, output, stderr, exit_code, call, ret>>

\* line 211
Sort ==
    /\ pc = "sort"
    /\ icons' = sort_icons(icons, args.order)
    /\ pc' = "build"
    /\ UNCHANGED <<args, fs, opened, globbed, include_sizes, png_paths, parsed,
                   ico_bytes, output, stderr, exit_code, call, ret>>

\* line 212
Build ==
    /\ pc = "build"
    /\ LET r == build_ico(icons) IN
        IF r.ok
        THEN ico_bytes' = r.val /\ pc' = "write" /\ UNCHANGED <<stderr, exit_code>>
        ELSE Fail(r.err) /\ UNCHANGED ico_bytes
    /\ UNCHANGED <<args, fs, opened, globbed, include_sizes, png_paths, icons,
                   parsed, output, call, ret>>

\* lines 217-223: the output is written in full and main returns 0
Write ==
    /\ pc = "write"
    /\ output' = Some(ico_bytes)
    /\ exit_code' = 0
    /\ pc' = "done"
    /\ UNCHANGED <<args, fs, opened, globbed, include_sizes, png_paths, icons,
                   parsed, ico_bytes, stderr, call, ret>>

\* lines 217-219 raise OSError (makedirs, open or write fails): it is outside
\* the try block, so the interpreter prints a traceback and exits with 1; the
\* output is absent or was truncated by open(..., "wb")
WriteFails ==
    /\ pc = "write"
    /\ \E o \in {None(<<>>), Some(<<>>)} : output' = o
    /\ stderr' = "Traceback"
    /\ exit_code' = 1
    /\ pc' = "done"
    /\ UNCHANGED <<args, fs, opened, globbed, include_sizes, png_paths, icons,
                   parsed, ico_bytes, call, ret>>

MainNext ==
    \/ ParseArgs
    \/ ParseSizesStep
    \/ Discover
    \/ ReadNext
    \/ Prefer
    \/ Filter
    \/ Unique
    \/ Sort
    \/ Build
    \/ Write
    \/ WriteFails

---------------------------------------------------------------------------
(* Direct calls of the module's functions. *)

mainVars ==
    <<pc, args, fs, opened, globbed, include_sizes, png_paths, icons, parsed,
      ico_bytes, output, stderr, exit_code>>

CallReadPng ==
    /\ pc = "start" /\ call = Idle
    /\ \E file \in PngFiles :
        /\ call' = [op |-> "read_png", file |-> file]
        /\ ret' = read_png(1, file)
    /\ UNCHANGED mainVars

CallParseSizes ==
    /\ pc = "start" /\ call = Idle
    /\ \E raw \in {None(<<>>)} \cup {Some(t) : t \in Texts} :
        /\ call' = [op |-> "parse_sizes", raw |-> raw]
        /\ ret' = parse_sizes(raw)
    /\ UNCHANGED mainVars

CallFilterIcons ==
    /\ pc = "start" /\ call = Idle
    /\ \E list \in IconLists, include \in FnIncludes, max_size \in MainMaxSizes :
        /\ call' = [op |-> "filter_icons", icons |-> list, include |-> include,
                    max_size |-> max_size]
        /\ ret' = filter_icons(list, include, max_size)
    /\ UNCHANGED mainVars

CallUniqueBySize ==
    /\ pc = "start" /\ call = Idle
    /\ \E list \in IconLists :
        /\ call' = [op |-> "unique_by_size", icons |-> list]
        /\ ret' = Ok(unique_by_size(list))
    /\ UNCHANGED mainVars

CallSortIcons ==
    /\ pc = "start" /\ call = Idle
    /\ \E list \in IconLists, order \in Orders :
        /\ call' = [op |-> "sort_icons", icons |-> list, order |-> order]
        /\ ret' = Ok(sort_icons(list, order))
    /\ UNCHANGED mainVars

CallBuildIco ==
    /\ pc = "start" /\ call = Idle
    /\ \E list \in IconLists :
        /\ call' = [op |-> "build_ico", icons |-> list]
        /\ ret' = build_ico(list)
    /\ UNCHANGED mainVars

CallNext ==
    \/ CallReadPng
    \/ CallParseSizes
    \/ CallFilterIcons
    \/ CallUniqueBySize
    \/ CallSortIcons
    \/ CallBuildIco

Next == MainNext \/ CallNext

Spec == Init /\ [][Next]_vars

---------------------------------------------------------------------------
(* Reading an encoded ICO back, and the error kinds of the specification. *)

UnpackLE16(b) == b[1] + 256 * b[2]
UnpackLE32(b) == b[1] + 256 * b[2] + 65536 * b[3] + 16777216 * b[4]

IcoCount(bytes) == UnpackLE16(Slice(bytes, 4, 6))
IcoEntry(bytes, i) == Slice(bytes, 6 + 16 * (i - 1), 6 + 16 * i)
EntryWidth(bytes, i) == IcoEntry(bytes, i)[1]
EntryHeight(bytes, i) == IcoEntry(bytes, i)[2]
EntryLength(bytes, i) == UnpackLE32(Slice(IcoEntry(bytes, i), 8, 12))
EntryOffset(bytes, i) == UnpackLE32(Slice(IcoEntry(bytes, i), 12, 16))
EntryPayload(bytes, i) ==
    Slice(bytes, EntryOffset(bytes, i), EntryOffset(bytes, i) + EntryLength(bytes, i))
\* the icon size a dimension byte stands for
EntrySize(bytes, i) ==
    IF EntryWidth(bytes, i) = 0 THEN 256 ELSE EntryWidth(bytes, i)

RECURSIVE SumLen(_, _)
SumLen(list, n) == IF n = 0 THEN 0 ELSE SumLen(list, n - 1) + Len(list[n].data)

FormatErrors ==
    {"not a valid PNG file", "invalid IHDR chunk", "icon must be square",
     "invalid icon size 0x0", "too many icons for ICO format",
     "cannot be stored in ICO directory"}
ConfigErrors ==
    {"invalid size value", "size must be > 0",
     "at least one size must be provided with --sizes",
     "no icons left after filtering"}

\* main() has written the whole ICO
Written == pc = "done" /\ exit_code = 0 /\ output.some

---------------------------------------------------------------------------
(* C1 *)

OffsetsOf(list, bytes) ==
    /\ \A i \in 1..Len(list) :
        /\ EntryOffset(bytes, i) = 6 + 16 * Len(list) + SumLen(list, i - 1)
        /\ EntryLength(bytes, i) = Len(list[i].data)
    /\ Len(list) >= 1 =>
        EntryOffset(bytes, Len(list)) + EntryLength(bytes, Len(list)) = Len(bytes)

\* C1: whenever build_ico accepts a list of N icons (directly called, or as
\* line 212 of main), the offset field of directory entry i is 6 + 16*N plus
\* the payload lengths of the entries before it, its length field is the
\* length of icon i's data, and the last entry's offset + length is the length
\* of the bytes returned.
C1_Offsets ==
    /\ (call.op = "build_ico" /\ ret.ok) => OffsetsOf(call.icons, ret.val)
    /\ pc = "write" => OffsetsOf(icons, ico_bytes)

C1_Witness ==
    /\ call.op = "build_ico" /\ ret.ok
    /\ Len(call.icons) = MaxIcons
    /\ Len(call.icons[1].data) = 1 /\ Len(call.icons[2].data) = 0
    /\ EntryOffset(ret.val, MaxIcons) = 6 + 16 * MaxIcons + SumLen(call.icons, MaxIcons - 1)

---------------------------------------------------------------------------
(* C5 *)

DimensionsOf(list, bytes) ==
    \A i \in 1..Len(list) :
        /\ EntryWidth(bytes, i) \in 0..255
        /\ EntryHeight(bytes, i) \in 0..255
        /\ list[i].size = 256 => EntryWidth(bytes, i) = 0 /\ EntryHeight(bytes, i) = 0
        /\ list[i].size \in 1..255 =>
            EntryWidth(bytes, i) = list[i].size /\ EntryHeight(bytes, i) = list[i].size
        /\ list[i].size <= 256

EncodedOrRefused(list, r) ==
    IF \E i \in 1..Len(list) : list[i].size > 256
    THEN ~r.ok /\ r.err = "cannot be stored in ICO directory"
         /\ r.err \in FormatErrors /\ r.val = <<>>
    ELSE r.ok /\ IcoCount(r.val) = Len(list) /\ DimensionsOf(list, r.val)

\* C5: for every icon list given to build_ico, either some icon is larger
\* than 256 and the encoder fails with a FormatError and no bytes, or every
\* directory entry has width and height bytes 0 for size 256 and the size
\* itself for sizes 1..255; in main this holds whatever --max-size was, and a
\* failed encoding ends the run with exit code 1 and nothing written.
C5_DimensionBytes ==
    /\ call.op = "build_ico" => EncodedOrRefused(call.icons, ret)
    /\ pc = "write" => EncodedOrRefused(icons, Ok(ico_bytes))
    /\ (pc = "done" /\ stderr = "cannot be stored in ICO directory") =>
        /\ \E i \in 1..Len(icons) : icons[i].size > 256
        /\ exit_code = 1 /\ ~output.some
    /\ Written => DimensionsOf(icons, output.v)

C5_Witness ==
    /\ call.op = "build_ico" /\ ret.ok
    /\ Len(call.icons) >= 2
    /\ call.icons[1].size = 256 /\ EntryWidth(ret.val, 1) = 0
    /\ call.icons[2].size = 48 /\ EntryHeight(ret.val, 2) = 48

---------------------------------------------------------------------------
(* C9 *)

\* the four conditions of the claim, read off the bytes of the file
ValidSquarePng(d) ==
    /\ Len(d) >= 33
    /\ SubSeq(d, 1, 8) = PNG_SIGNATURE
    /\ SubSeq(d, 13, 16) = IHDR
    /\ UnpackBE32(SubSeq(d, 9, 12)) >= 8
    /\ UnpackBE32(SubSeq(d, 17, 20)) = UnpackBE32(SubSeq(d, 21, 24))
    /\ UnpackBE32(SubSeq(d, 17, 20)) > 0

\* C9: read_png returns an icon exactly when the file has at least 33 bytes,
\* starts with the PNG signature, has chunk type IHDR with declared length
\* >= 8 and width = height > 0; the icon's size is then the IHDR width and its
\* data the whole file.  Otherwise it raises (a FormatError when the file
\* could be read) and yields no icon.
C9_ReadPng ==
    call.op = "read_png" =>
        /\ ret.ok <=> (call.file.exists /\ ValidSquarePng(call.file.data))
        /\ ret.ok =>
            /\ ret.val.size = UnpackBE32(SubSeq(call.file.data, 17, 20))
            /\ ret.val.data = call.file.data
        /\ ~ret.ok => ret.val = NoIcon
        /\ (~ret.ok /\ call.file.exists) => ret.err \in FormatErrors

C9_Witness ==
    /\ call.op = "read_png" /\ ret.ok
    /\ ret.val.size = 256
    /\ Len(ret.val.data) = 33 + MaxTail
    /\ ret.val.data = call.file.data

---------------------------------------------------------------------------
(* C2 *)

\* the file main() read from the i-th path it opened is a square PNG
OpenedParses(i) ==
    /\ fs[opened[i]].some
    /\ fs[opened[i]].v.exists
    /\ ValidSquarePng(fs[opened[i]].v.data)

\* C2: a failure of any stage before the write ends the run with exit code 1
\* and no output file; one input that does not parse is such a failure,
\* however many valid ones were read before it.  The output is written only
\* after every discovered path has parsed and the encoder has returned, and
\* the run that wrote it exits with 0.
C2_AllOrNothing ==
    /\ pc = "done" <=> exit_code \in {0, 1}
    /\ (pc = "done" /\ stderr # "" /\ stderr # "Traceback") =>
        exit_code = 1 /\ ~output.some
    /\ (\E i \in 1..Len(opened) : ~OpenedParses(i)) =>
        pc = "done" /\ exit_code = 1 /\ ~output.some
    /\ output.some =>
        /\ png_paths # <<>>
        /\ opened = png_paths
        /\ \A i \in 1..Len(opened) : OpenedParses(i)
        /\ Len(parsed) = Len(png_paths)
        /\ build_ico(icons).ok /\ ico_bytes = build_ico(icons).val
    /\ (output.some /\ output.v # <<>>) => exit_code = 0 /\ output.v = ico_bytes
    /\ exit_code = 0 => output = Some(ico_bytes) /\ stderr = ""

C2_Witness ==
    /\ pc = "done" /\ exit_code = 1 /\ ~output.some
    /\ Len(png_paths) = 2 /\ Len(opened) = 2
    /\ OpenedParses(1) /\ ~OpenedParses(2)
    /\ fs[opened[2]].v.exists

---------------------------------------------------------------------------
(* C3 *)

SizesOf(list) == {list[i].size : i \in 1..Len(list)}
LastOfSize(list, s) ==
    list[CHOOSE j \in 1..Len(list) :
            list[j].size = s /\ \A k \in (j + 1)..Len(list) : list[k].size # s]

\* C3: unique_by_size returns exactly one icon per size of its input, the last
\* of that size in input order, and nothing else; the written ICO has at most
\* one entry per size and each entry carries the bytes of the last file of
\* that size in discovery order.
C3_LastWins ==
    /\ call.op = "unique_by_size" =>
        /\ SizesOf(ret.val) = SizesOf(call.icons)
        /\ Len(ret.val) = Cardinality(SizesOf(call.icons))
        /\ \A i \in 1..Len(ret.val) :
            ret.val[i] = LastOfSize(call.icons, ret.val[i].size)
    /\ Written =>
        /\ \A i, j \in 1..IcoCount(output.v) :
            EntrySize(output.v, i) = EntrySize(output.v, j) => i = j
        /\ \A i \in 1..IcoCount(output.v) :
            /\ EntrySize(output.v, i) \in SizesOf(parsed)
            /\ EntryPayload(output.v, i) =
                LastOfSize(parsed, EntrySize(output.v, i)).data

C3_Witness ==
    /\ Written
    /\ Len(parsed) = 2
    /\ parsed[1].size = parsed[2].size /\ parsed[1].data # parsed[2].data
    /\ IcoCount(output.v) = 1
    /\ EntryPayload(output.v, 1) = parsed[2].data

---------------------------------------------------------------------------
(* C4 *)

InOrder(sizes, order) ==
    \A i, j \in 1..Len(sizes) :
        i < j => IF order = "desc" THEN sizes[i] >= sizes[j] ELSE sizes[i] <= sizes[j]

\* C4: sort_icons returns a permutation of its input ordered by size, largest
\* first for desc and smallest first for asc; the entries and payloads of the
\* written ICO are the sorted icons in exactly that order, so the directory is
\* ordered by size in the direction asked for.
C4_SortedBySize ==
    /\ call.op = "sort_icons" =>
        /\ Len(ret.val) = Len(call.icons)
        /\ {ret.val[i] : i \in 1..Len(ret.val)}
            = {call.icons[i] : i \in 1..Len(call.icons)}
        /\ InOrder([i \in 1..Len(ret.val) |-> ret.val[i].size], call.order)
    /\ Written =>
        /\ IcoCount(output.v) = Len(icons)
        /\ \A i \in 1..Len(icons) :
            /\ EntrySize(output.v, i) = icons[i].size
            /\ EntryPayload(output.v, i) = icons[i].data
        /\ InOrder([i \in 1..Len(icons) |-> EntrySize(output.v, i)], args.order)

C4_Witness ==
    /\ call.op = "sort_icons" /\ call.order = "desc"
    /\ [i \in 1..Len(call.icons) |-> call.icons[i].size] = <<16, 256, 48>>
    /\ [i \in 1..Len(ret.val) |-> ret.val[i].size] = <<256, 48, 16>>

---------------------------------------------------------------------------
(* C6 *)

PreferredSet == {256, 128, 64, 48, 32, 24, 16}
ExplicitInputs == args.inputs.some /\ args.inputs.v # <<>>
\* Prefer has run: every path has parsed and main is past line 207
AfterPrefer == parsed # <<>> /\ pc # "prefer"

\* C6: with no explicit size set and no explicit input list, the allow-list
\* used from line 209 on is the set of sizes of all parsed icons intersected
\* with {256,128,64,48,32,24,16} when that is non-empty and no allow-list
\* when it is empty; otherwise it is what parse_sizes returned.  Sizes 16, 32
\* and 256 with no options give three entries ordered 256, 32, 16.
C6_DefaultPreference ==
    /\ AfterPrefer =>
        LET given == parse_sizes(args.sizes).val
            common == SizesOf(parsed) \cap PreferredSet
        IN  IF ~given.some /\ ~ExplicitInputs
            THEN include_sizes = IF common # {} THEN Some(common) ELSE None({})
            ELSE include_sizes = given
    /\ (/\ Written /\ args = NoArgs /\ SizesOf(parsed) = {16, 32, 256}) =>
        /\ IcoCount(output.v) = 3
        /\ [i \in 1..3 |-> EntrySize(output.v, i)] = <<256, 32, 16>>

C6_Witness ==
    /\ Written /\ args = NoArgs
    /\ [i \in 1..Len(parsed) |-> parsed[i].size] = <<16, 32, 256>>
    /\ include_sizes = Some({16, 32, 256})
    /\ [i \in 1..IcoCount(output.v) |-> EntrySize(output.v, i)] = <<256, 32, 16>>

---------------------------------------------------------------------------
(* C7 *)

Wanted(list, include, max_size) ==
    SelectSeq(list, LAMBDA icon :
        icon.size <= max_size /\ (include.some => icon.size \in include.v))

\* C7: filter_icons returns, in input order, exactly the icons whose size is
\* at most the maximum and, with an allow-list, in the allow-list; it raises
\* the ConfigError "no icons left after filtering" exactly when there is no
\* such icon, and main then exits with 1 and writes nothing.
C7_Filter ==
    /\ call.op = "filter_icons" =>
        LET want == Wanted(call.icons, call.include, call.max_size) IN
        IF want = <<>>
        THEN ~ret.ok /\ ret.err = "no icons left after filtering"
             /\ ret.err \in ConfigErrors
        ELSE ret.ok /\ ret.val = want
    /\ pc = "unique" => icons = Wanted(parsed, include_sizes, args.max_size)
    /\ (AfterPrefer /\ pc # "filter") =>
        (Wanted(parsed, include_sizes, args.max_size) = <<>>
            <=> stderr = "no icons left after filtering")
    /\ stderr = "no icons left after filtering" =>
        pc = "done" /\ exit_code = 1 /\ ~output.some

C7_Witness ==
    /\ pc = "done" /\ stderr = "no icons left after filtering"
    /\ args.max_size = 16
    /\ SizesOf(parsed) = {32, 256}
    /\ exit_code = 1 /\ ~output.some

---------------------------------------------------------------------------
(* C8 *)

\* the stripped, non-empty tokens of a text
TokensOf(text) ==
    {Strip(Split(text)[i]) : i \in 1..Len(Split(text))} \ {<<>>}
BadToken(token) == ~IntOf(token).ok \/ IntOf(token).val <= 0

\* C8: the --sizes text is parsed before discovery and before any file is
\* opened: while it is unparsed nothing has been listed or opened, and a text
\* with a non-numeric or non-positive token ends the run with a ConfigError
\* and exit code 1 with no path discovered and no file read.
C8_SizesFirst ==
    /\ pc \in {"start", "parse_sizes"} =>
        opened = <<>> /\ ~globbed /\ png_paths = <<>>
    /\ (/\ args.sizes.some
        /\ \E t \in TokensOf(args.sizes.v) : BadToken(t)
        /\ pc # "parse_sizes") =>
        /\ pc = "done" /\ exit_code = 1 /\ ~output.some
        /\ stderr \in {"invalid size value", "size must be > 0"}
        /\ stderr \in ConfigErrors
        /\ opened = <<>> /\ ~globbed /\ png_paths = <<>>
        /\ \A p \in Paths : ~fs[p].some

C8_Witness ==
    /\ args.sizes = Some(<<"0", ",", "1", "6">>)
    /\ pc = "done" /\ exit_code = 1 /\ stderr = "size must be > 0"
    /\ opened = <<>> /\ ~globbed

---------------------------------------------------------------------------
(* C10 *)

\* C10: for any supplied text parse_sizes raises a ConfigError if some token
\* is non-numeric or non-positive, raises a ConfigError if no token yields a
\* size, and otherwise returns exactly the set of integers the tokens name;
\* so main never goes on without an allow-list when a text was supplied.
C10_SuppliedText ==
    /\ (call.op = "parse_sizes" /\ call.raw.some) =>
        LET tokens == TokensOf(call.raw.v) IN
        IF (\E t \in tokens : BadToken(t)) \/ tokens = {}
        THEN ~ret.ok /\ ret.err \in ConfigErrors
        ELSE ret.ok /\ ret.val = Some({IntOf(t).val : t \in tokens})
    /\ (args.sizes.some /\ pc = "discover") => include_sizes.some

\* the same for every text but the empty one, which the code accepts
C10_NonEmptyText ==
    /\ (call.op = "parse_sizes" /\ call.raw.some /\ call.raw.v # <<>>) =>
        LET tokens == TokensOf(call.raw.v) IN
        IF (\E t \in tokens : BadToken(t)) \/ tokens = {}
        THEN ~ret.ok /\ ret.err \in ConfigErrors
        ELSE ret.ok /\ ret.val = Some({IntOf(t).val : t \in tokens})
    /\ (args.sizes.some /\ args.sizes.v # <<>> /\ pc = "discover") =>
        include_sizes.some

===========================================================================
